---- MODULE Spec2Model ----
(***************************************************************************)
(* Model of the documentation-maintenance scripts complete_all_configs.py, *)
(* convert_agent_syntax.py and fix_configs.py.                             *)
(*                                                                         *)
(* A text is a sequence of atoms.  An atom is a maximal run of word        *)
(* characters ("system", "a"), one punctuation mark ("{", the double       *)
(* quote), one white-space character (" ", "\n"), or an opaque run of      *)
(* template text that no pattern of the scripts looks into.  The regular   *)
(* expressions of the scripts are translated atom by atom.                 *)
(***************************************************************************)
EXTENDS Integers, Sequences, FiniteSets, TLC

(***************************************************************************)
(* Bounds of the model.                                                    *)
(***************************************************************************)
MaxPieces == 3
MaxBlocks == 2
MaxConvPieces == 3
MaxBlockPieces == 2
MaxCalls == 2
MaxFixPieces == 1
MaxFill == 5
MaxFixBlocks == 2
MaxRuns == 2

(***************************************************************************)
(* Atoms.                                                                  *)
(***************************************************************************)
Q == "\""
SP == " "
NL == "\n"

IsSpace(a) == a \in {SP, NL}

\* The leading \w+ run of an atom, "" when the atom does not start with a
\* word character.
WordPrefix(a) ==
    CASE a \in {"name", "port", "weight", "enabled", "disabled", "key",
                "value", "system", "listeners", "routes", "upstreams",
                "agents", "agent", "transport", "events", "path", "url",
                "a", "b", "p", "u", "x", "r", "type", "custom", "builtin",
                "unix_socket", "grpc"} -> a
      [] a = "schema-content" -> "schema"
      [] a = "service-type" -> "service"
      [] a = "unix-socket" -> "unix"
      [] OTHER -> ""

RECURSIVE Concat(_)
Concat(ss) == IF ss = <<>> THEN <<>> ELSE Head(ss) \o Concat(Tail(ss))

\* "sep".join(ss)
RECURSIVE Join(_, _)
Join(ss, sep) ==
    IF ss = <<>> THEN <<>>
    ELSE IF Len(ss) = 1 THEN ss[1]
    ELSE ss[1] \o sep \o Join(Tail(ss), sep)

\* str.strip()
RECURSIVE LStrip(_)
LStrip(s) == IF s # <<>> /\ IsSpace(Head(s)) THEN LStrip(Tail(s)) ELSE s

RECURSIVE RStrip(_)
RStrip(s) ==
    IF s # <<>> /\ IsSpace(s[Len(s)]) THEN RStrip(SubSeq(s, 1, Len(s) - 1)) ELSE s

Strip(s) == RStrip(LStrip(s))

\* needle in s
Contains(s, needle) ==
    \E i \in 1..(Len(s) - Len(needle) + 1) :
        SubSeq(s, i, i + Len(needle) - 1) = needle

\* ^\s* ending just before position i (MULTILINE): some line start j is
\* followed by white space only up to i.
AtLineStart(s, i) ==
    \E j \in 0..(i - 1) :
        /\ (j = 0 \/ s[j] = NL)
        /\ \A k \in (j + 1)..(i - 1) : IsSpace(s[k])

(***************************************************************************)
(* complete_all_configs.py                                                 *)
(***************************************************************************)

\* re.search(rf'^\s*{block_name}\s*\{{', config, re.MULTILINE)
has_block(config, block_name) ==
    \E i \in 1..Len(config) :
        /\ config[i] = block_name
        /\ AtLineStart(config, i)
        /\ \E j \in (i + 1)..Len(config) :
              /\ config[j] = "{"
              /\ \A k \in (i + 1)..(j - 1) : IsSpace(config[k])

\* re.search(r'^\s*(\w+)', config.strip(), re.MULTILINE): "" stands for None
get_first_word(config) ==
    LET s == Strip(config)
        hits == {i \in 1..Len(s) : AtLineStart(s, i) /\ WordPrefix(s[i]) # ""}
    IN IF hits = {} THEN ""
       ELSE WordPrefix(s[CHOOSE i \in hits : \A j \in hits : i <= j])

syntax_keywords ==
    {"name", "port", "weight", "enabled", "disabled", "optional-field",
     "key", "value", "my-field"}

is_syntax_example(config) == get_first_word(config) \in syntax_keywords

\* The completion templates of complete_config; the body of a block is
\* opaque text.
SystemTemplate == <<"system", SP, "{", NL, "    worker-threads 0", NL, "}">>
ListenersTemplate ==
    <<"listeners", SP, "{", NL, "    listener \"http\" {...}", NL, "}">>
RoutesTemplate ==
    <<"routes", SP, "{", NL, "    route \"default\" {...}", NL, "}">>
UpstreamsTemplate ==
    <<"upstreams", SP, "{", NL, "    upstream \"backend\" {...}", NL, "}">>
\* The routes block of the syntax-example wrapper names its route "example".
ExampleRoutesTemplate ==
    <<"routes", SP, "{", NL, "    route \"example\" {...}", NL, "}">>

\* The canonical configuration of the syntax-example wrapper, up to and
\* including the "// " that opens its last line.
WrapperHead ==
    <<"//", " KDL Syntax Example (not a complete config)", NL>>
    \o SystemTemplate \o <<NL, NL>>
    \o ListenersTemplate \o <<NL, NL>>
    \o ExampleRoutesTemplate \o <<NL, NL>>
    \o UpstreamsTemplate \o <<NL, NL>>
    \o <<"//", " The syntax being demonstrated:", NL, "//", SP>>

\* The f-string returned for a syntax example: the fragment is interpolated
\* as it is, after the "// " of the last line.
SyntaxExampleWrapper(config) == WrapperHead \o config \o <<NL>>

\* CompletionParts with the fragment appended after the templates instead
\* of between listeners and routes.
CompletionPartsOriginalLast(config) ==
    (IF ~has_block(config, "system")
        THEN << [block |-> "system", text |-> SystemTemplate] >> ELSE <<>>)
 \o (IF ~has_block(config, "listeners")
        THEN << [block |-> "listeners", text |-> ListenersTemplate] >> ELSE <<>>)
 \o (IF ~has_block(config, "routes")
        THEN << [block |-> "routes", text |-> RoutesTemplate] >> ELSE <<>>)
 \o (IF ~has_block(config, "upstreams") \/ ~has_block(config, "routes")
        THEN << [block |-> "upstreams", text |-> UpstreamsTemplate] >> ELSE <<>>)
 \o << [block |-> "original", text |-> Strip(config)] >>

\* The parts list of complete_config, each part with the name of the
\* template it comes from ("original" for the fragment).
CompletionParts(config) ==
    LET needs_routes == ~has_block(config, "routes")
        needs_upstreams == ~has_block(config, "upstreams") \/ needs_routes
    IN  (IF ~has_block(config, "system")
            THEN << [block |-> "system", text |-> SystemTemplate] >> ELSE <<>>)
     \o (IF ~has_block(config, "listeners")
            THEN << [block |-> "listeners", text |-> ListenersTemplate] >> ELSE <<>>)
     \o << [block |-> "original", text |-> Strip(config)] >>
     \o (IF needs_routes
            THEN << [block |-> "routes", text |-> RoutesTemplate] >> ELSE <<>>)
     \o (IF needs_upstreams
            THEN << [block |-> "upstreams", text |-> UpstreamsTemplate] >> ELSE <<>>)

\* completed = "\n\n".join(parts)
Completed(config) ==
    LET ps == CompletionParts(config)
    IN Join([i \in 1..Len(ps) |-> ps[i].text], <<NL, NL>>)

(***************************************************************************)
(* convert_agent_syntax.py                                                 *)
(***************************************************************************)

Min(S) == CHOOSE i \in S : \A j \in S : i <= j

At(s, i, a) == i \in 1..Len(s) /\ s[i] = a

\* The end of the longest \s* starting at p: the first position at or
\* after p that holds no white space (Len(s) + 1 when there is none).
SkipWS(s, p) ==
    LET I == {i \in p..Len(s) : ~IsSpace(s[i])}
    IN IF I = {} THEN Len(s) + 1 ELSE Min(I)

\* The first position at or after p that holds atom a (0 when none).
NextAtom(s, p, a) ==
    LET I == {i \in p..Len(s) : s[i] = a}
    IN IF I = {} THEN 0 ELSE Min(I)

Indent4 == <<SP, SP, SP, SP>>

\* (\s*)transport\s+"<kind>"\s*\{\s*<field>\s+"[^"]+"\s*\} tried at p:
\* the positions of the match, end = 0 when it fails.  [^"]+ takes at
\* least one atom and stops at the first double quote.
TransportMatch(s, p, kind, field) ==
    LET a == SkipWS(s, p)
        b == SkipWS(s, a + 1)
        c == SkipWS(s, b + 3)
        d == SkipWS(s, c + 1)
        e == SkipWS(s, d + 1)
        f == NextAtom(s, e + 1, Q)
        g == SkipWS(s, f + 1)
        ok == /\ At(s, a, "transport") /\ b > a + 1
              /\ At(s, b, Q) /\ At(s, b + 1, kind) /\ At(s, b + 2, Q)
              /\ At(s, c, "{")
              /\ At(s, d, field) /\ e > d + 1
              /\ At(s, e, Q) /\ f > e + 1
              /\ At(s, g, "}")
    IN [end |-> IF ok THEN g + 1 ELSE 0, a |-> a, e |-> e, f |-> f]

\* replace_unix_socket / replace_grpc: the inner search for the path (url)
\* finds the one the pattern matched; the indent is group(1), or four
\* spaces when group(1) is empty.
TransportReplacement(s, p, m, directive) ==
    (IF m.a > p THEN SubSeq(s, p, m.a - 1) ELSE Indent4)
    \o <<directive, SP, Q>> \o SubSeq(s, m.e + 1, m.f - 1) \o <<Q>>

\* re.findall(r'"([^"]+)"', content): the quoted strings of content, each
\* of at least one atom.
RECURSIVE FindQuoted(_, _)
FindQuoted(s, p) ==
    LET i == NextAtom(s, p, Q)
        j == NextAtom(s, i + 1, Q)
    IN IF i = 0 \/ j = 0 THEN <<>>
       ELSE IF j = i + 1 THEN FindQuoted(s, i + 1)
       ELSE <<SubSeq(s, i + 1, j - 1)>> \o FindQuoted(s, j + 1)

\* (\s*)events\s+\[([^\]]+)\] tried at p
EventsMatch(s, p) ==
    LET a == SkipWS(s, p)
        b == SkipWS(s, a + 1)
        f == NextAtom(s, b + 1, "]")
        ok == At(s, a, "events") /\ b > a + 1 /\ At(s, b, "[") /\ f > b + 1
    IN [end |-> IF ok THEN f + 1 ELSE 0, a |-> a, b |-> b, f |-> f]

\* replace_events_array
EventsReplacement(s, p, m) ==
    LET events == FindQuoted(SubSeq(s, m.b + 1, m.f - 1), 1)
        quoted == [i \in 1..Len(events) |-> <<Q>> \o events[i] \o <<Q>>]
    IN IF events = <<>> THEN SubSeq(s, p, m.f)
       ELSE SubSeq(s, p, m.a - 1) \o <<"events", SP>> \o Join(quoted, <<SP>>)

\* agent\s+"[^"]+"\s*\{ tried at p
AgentMatch(s, p) ==
    LET b == SkipWS(s, p + 1)
        f == NextAtom(s, b + 1, Q)
        g == SkipWS(s, f + 1)
        ok == /\ At(s, p, "agent") /\ b > p + 1
              /\ At(s, b, Q) /\ f > b + 1
              /\ At(s, g, "{")
    IN [end |-> IF ok THEN g + 1 ELSE 0, f |-> f, g |-> g]

TypeCustom == <<SP, "type", "=", Q, "custom", Q>>

\* add_agent_type: the inner re.sub matches the whole agent line again
AgentReplacement(s, p, m) ==
    LET agent_line == SubSeq(s, p, m.g)
    IN IF ~Contains(agent_line, <<"type", "=">>)
          THEN SubSeq(s, p, m.f) \o TypeCustom \o SubSeq(s, m.f + 1, m.g)
          ELSE agent_line

\* schema-content\s+r#" tried at p
SchemaMatch(s, p) ==
    LET b == SkipWS(s, p + 1)
        ok == /\ At(s, p, "schema-content") /\ b > p + 1
              /\ At(s, b, "r") /\ At(s, b + 1, "#") /\ At(s, b + 2, Q)
    IN [end |-> IF ok THEN b + 3 ELSE 0]

\* "#\s*\n\s*\} tried at p: the white space holds a line break
RawCloseMatch(s, p) ==
    LET g == SkipWS(s, p + 2)
        ok == /\ At(s, p, Q) /\ At(s, p + 1, "#")
              /\ \E k \in (p + 2)..(g - 1) : s[k] = NL
              /\ At(s, g, "}")
    IN [end |-> IF ok THEN g + 1 ELSE 0]

\* \s*service-type\s+"builtin" tried at p
ServiceTypeMatch(s, p) ==
    LET a == SkipWS(s, p)
        b == SkipWS(s, a + 1)
        ok == /\ At(s, a, "service-type") /\ b > a + 1
              /\ At(s, b, Q) /\ At(s, b + 1, "builtin") /\ At(s, b + 2, Q)
    IN [end |-> IF ok THEN b + 3 ELSE 0]

\* One pattern tried at position p, and the text its match is replaced by.
RuleMatch(rule, s, p) ==
    CASE rule = "unix_socket" -> TransportMatch(s, p, "unix_socket", "path")
      [] rule = "grpc" -> TransportMatch(s, p, "grpc", "url")
      [] rule = "events" -> EventsMatch(s, p)
      [] rule = "agent_type" -> AgentMatch(s, p)
      [] rule = "schema" -> SchemaMatch(s, p)
      [] rule = "raw_close" -> RawCloseMatch(s, p)
      [] rule = "service_type" -> ServiceTypeMatch(s, p)

RuleReplacement(rule, s, p, m) ==
    CASE rule = "unix_socket" -> TransportReplacement(s, p, m, "unix-socket")
      [] rule = "grpc" -> TransportReplacement(s, p, m, "grpc")
      [] rule = "events" -> EventsReplacement(s, p, m)
      [] rule = "agent_type" -> AgentReplacement(s, p, m)
      [] rule = "schema" -> <<"schema-content", SP, Q>>
      [] rule = "raw_close" -> <<Q, NL>> \o Indent4 \o <<"}">>
      [] rule = "service_type" -> <<>>

\* re.sub(pattern, repl, s): the leftmost matches, not overlapping, each
\* replaced; the scan goes on after a match.  No pattern matches the
\* empty string.
RECURSIVE SubFrom(_, _, _)
SubFrom(rule, s, p) ==
    IF p > Len(s) THEN <<>>
    ELSE LET m == RuleMatch(rule, s, p)
         IN IF m.end # 0
               THEN RuleReplacement(rule, s, p, m) \o SubFrom(rule, s, m.end)
               ELSE <<s[p]>> \o SubFrom(rule, s, p + 1)

ReSub(rule, s) == SubFrom(rule, s, 1)

\* The dialect rules in the order convert_agent_syntax applies them.
Rules == <<"unix_socket", "grpc", "events", "agent_type", "schema", "raw_close">>

RECURSIVE ApplyRules(_, _)
ApplyRules(rules, s) ==
    IF rules = <<>> THEN s ELSE ApplyRules(Tail(rules), ReSub(Head(rules), s))

convert_agent_syntax(config) == ApplyRules(Rules, config)

ServiceTypeBuiltin == <<"service-type", SP, Q, "builtin", Q>>

\* re.sub(r'\s*service-type\s+"builtin"', '', converted)
StripServiceType(converted) == ReSub("service_type", converted)

(***************************************************************************)
(* The fragments the scripts are run on.                                   *)
(***************************************************************************)

\* Sequences over S of length 1..n
SeqsUpTo(S, n) == UNION {[1..k -> S] : k \in 1..n}

\* The pieces a fragment handed to complete_config is made of: a one-line
\* block, the routes block with its upstreams block, a field.
ConfigPieces ==
    { <<"system", SP, "{", SP, "}">>,
      <<"listeners", SP, "{", SP, "}">>,
      <<"routes", SP, "{", SP, "}">>,
      <<"upstreams", SP, "{", SP, "}">>,
      <<"routes", SP, "{", SP, "}", NL, "upstreams", SP, "{", SP, "}">>,
      <<"agents", SP, "{", SP, "}">>,
      <<"name", SP, Q, "a", Q>> }

\* A fragment of complete_all_configs: up to MaxPieces pieces, one to a
\* line, with or without the line break that ends the last line.
ConfigFragments ==
    LET bodies == {Join(ls, <<NL>>) : ls \in SeqsUpTo(ConfigPieces, MaxPieces)}
    IN bodies \cup {b \o <<NL>> : b \in bodies}

\* The phrases a fragment handed to convert_agent_syntax is made of.
ConvPieces ==
    { <<"agent", SP, Q, "a", Q, SP, "{">>,
      <<"agent", SP, Q, "a", Q, SP, "type", "=", Q, "custom", Q, SP, "{">>,
      <<"transport", SP, Q, "unix_socket", Q, SP, "{", SP, "path", SP, Q, "p", Q>>,
      <<"transport", SP, Q, "grpc", Q, SP, "{", SP, "url", SP, Q, "u", Q>>,
      <<SP, "}">>,
      <<"events", SP, "[", Q, "a", Q, ",", SP, Q, "b", Q>>,
      <<"]">>,
      <<"schema-content", SP, "r", "#", Q, "x", Q>>,
      <<"#", NL, "}">>,
      <<NL, SP, "service-type", SP, Q, "builtin", Q>>,
      <<NL, SP, SP>> }

ConvFragments == {Concat(ps) : ps \in SeqsUpTo(ConvPieces, MaxConvPieces)}

\* The fragments of the blocks convert_agent_syntax.process_file meets.
ConvBlockFragments == {Concat(ps) : ps \in SeqsUpTo(ConvPieces, MaxBlockPieces)}

(***************************************************************************)
(* The validator.  test_config(text) asks an external program; its verdict *)
(* on a text is a function of the text.  V is that function on the texts   *)
(* a fragment can lead the scripts to test.                                *)
(***************************************************************************)
Candidate(config) ==
    IF is_syntax_example(config) THEN SyntaxExampleWrapper(config)
    ELSE Completed(config)

ConvertTexts(config, converted) ==
    {config, converted, StripServiceType(converted)}

TestedTexts(script, config) ==
    IF script = "complete" THEN {config, Candidate(config)}
    ELSE ConvertTexts(config, convert_agent_syntax(config))

Validators(script, config) == [TestedTexts(script, config) -> BOOLEAN]

\* One call of test_config, as logged: the text and the verdict returned.
Call(V, text) == [text |-> text, ok |-> V[text]]

(***************************************************************************)
(* complete_config(config), with the validator V: the value returned, the  *)
(* validator calls made in order, the parts assembled and the return       *)
(* statement taken.                                                        *)
(***************************************************************************)
\* lines 135-140: test the completion, return it or the original
ReturnCompleted(config, completed, V) ==
    IF V[completed]
    THEN [ret |-> completed,
          calls |-> <<Call(V, config), Call(V, completed)>>,
          parts |-> CompletionParts(config), path |-> "completed"]
    ELSE [ret |-> config,
          calls |-> <<Call(V, config), Call(V, completed)>>,
          parts |-> CompletionParts(config), path |-> "original"]

\* complete_config with the syntax-example test made before the validity
\* test.
complete_config_wrap_first(config, V) ==
    IF is_syntax_example(config)
    THEN [ret |-> SyntaxExampleWrapper(config), calls |-> <<>>,
          parts |-> <<>>, path |-> "syntax"]
    ELSE IF V[config]
    THEN [ret |-> config, calls |-> <<Call(V, config)>>,
          parts |-> <<>>, path |-> "valid"]
    ELSE ReturnCompleted(config, Completed(config), V)

complete_config(config, V) ==
    IF V[config]
    THEN [ret |-> config, calls |-> <<Call(V, config)>>,
          parts |-> <<>>, path |-> "valid"]
    ELSE IF is_syntax_example(config)
    THEN [ret |-> SyntaxExampleWrapper(config), calls |-> <<Call(V, config)>>,
          parts |-> <<>>, path |-> "syntax"]
    ELSE ReturnCompleted(config, Completed(config), V)

NoCall == [ret |-> <<>>, calls |-> <<>>, parts |-> <<>>, path |-> "none"]

(***************************************************************************)
(* process_file: the callback re.sub runs on each fenced kdl block.        *)
(***************************************************************************)
\* The groups 1 and 3 of the block pattern; <fence> stands for the three
\* backquotes of a fenced block.
Prefix == <<"<fence>kdl", NL>>
Suffix == <<"<fence>">>

\* match.group(0)
Group0(kdl_content) == Prefix \o kdl_content \o Suffix

\* The callback returns match.group(0).
Unchanged(kdl_content, tags, calls, cc) ==
    [repl |-> Group0(kdl_content), subst |-> FALSE, tags |-> tags,
     calls |-> calls, cc |-> cc]

\* The callback returns prefix + text + '\n' + suffix.
Substituted(text, tag, calls, cc) ==
    [repl |-> Prefix \o text \o <<NL>> \o Suffix, subst |-> TRUE,
     tags |-> <<tag>>, calls |-> calls, cc |-> cc]

\* CheckProgress without the test of the completed text.
CheckProgressNoTest(kdl_content, cc, V) ==
    IF cc.ret # kdl_content
    THEN Substituted(cc.ret, "completed", <<Call(V, kdl_content)>> \o cc.calls, cc)
    ELSE Unchanged(kdl_content, <<>>, <<Call(V, kdl_content)>> \o cc.calls, cc)

\* complete_all_configs.process_file.fix_kdl_block after complete_config
\* returned cc: "Check if we made progress".
CheckProgress(kdl_content, cc, V) ==
    IF cc.ret # kdl_content
    THEN IF V[cc.ret]
         THEN Substituted(cc.ret, "completed",
                  <<Call(V, kdl_content)>> \o cc.calls \o <<Call(V, cc.ret)>>, cc)
         ELSE Unchanged(kdl_content, <<"attempted">>,
                  <<Call(V, kdl_content)>> \o cc.calls \o <<Call(V, cc.ret)>>, cc)
    ELSE Unchanged(kdl_content, <<>>, <<Call(V, kdl_content)>> \o cc.calls, cc)

\* complete_all_configs.process_file.fix_kdl_block: the text returned for
\* the block, the tags appended to fixes, the validator calls in order.
CompleteFixKdlBlock(kdl_content, V) ==
    IF V[kdl_content]
    THEN Unchanged(kdl_content, <<>>, <<Call(V, kdl_content)>>, NoCall)
    ELSE CheckProgress(kdl_content, complete_config(kdl_content, V), V)

\* convert_agent_syntax.process_file.fix_kdl_block, "Try one more time with
\* additional fixes": converted2 is tested after the calls made so far.
RetryWithoutServiceType(kdl_content, converted2, V, calls) ==
    IF V[converted2]
    THEN Substituted(converted2, "converted+fixed",
             calls \o <<Call(V, converted2)>>, NoCall)
    ELSE Unchanged(kdl_content, <<>>, calls \o <<Call(V, converted2)>>, NoCall)

\* convert_agent_syntax.process_file.fix_kdl_block, "Test if conversion
\* worked"
TestConversion(kdl_content, converted, V) ==
    IF converted # kdl_content
    THEN IF V[converted]
         THEN Substituted(converted, "converted",
                  <<Call(V, kdl_content), Call(V, converted)>>, NoCall)
         ELSE IF Contains(converted, ServiceTypeBuiltin)
         THEN RetryWithoutServiceType(kdl_content, StripServiceType(converted), V,
                  <<Call(V, kdl_content), Call(V, converted)>>)
         ELSE Unchanged(kdl_content, <<>>,
                  <<Call(V, kdl_content), Call(V, converted)>>, NoCall)
    ELSE Unchanged(kdl_content, <<>>, <<Call(V, kdl_content)>>, NoCall)

\* convert_agent_syntax.process_file.fix_kdl_block
ConvertFixKdlBlock(kdl_content, V) ==
    IF V[kdl_content]
    THEN Unchanged(kdl_content, <<>>, <<Call(V, kdl_content)>>, NoCall)
    ELSE TestConversion(kdl_content, convert_agent_syntax(kdl_content), V)

NoBlock ==
    [repl |-> <<>>, subst |-> FALSE, tags |-> <<>>, calls |-> <<>>, cc |-> NoCall]

\* fixes.count(tag)
RECURSIVE Count(_, _)
Count(fixes, tag) ==
    IF fixes = <<>> THEN 0
    ELSE (IF Head(fixes) = tag THEN 1 ELSE 0) + Count(Tail(fixes), tag)

(***************************************************************************)
(* fix_configs.py.  Its has_block (lines 30-33) is the pattern of          *)
(* has_block above.                                                        *)
(***************************************************************************)

\* has_system and has_listeners
is_complete_config(config) ==
    /\ has_block(config, "system") \/ has_block(config, "server")
    /\ has_block(config, "listeners")

\* \bserver\s*{ tried at p: the position of the brace, 0 when it fails.
\* An atom is a whole run of word characters, so \b holds where it starts.
ServerMatch(s, p) ==
    LET b == SkipWS(s, p + 1)
    IN IF At(s, p, "server") /\ At(s, b, "{") THEN b ELSE 0

RECURSIVE ServerSubFrom(_, _)
ServerSubFrom(s, p) ==
    IF p > Len(s) THEN <<>>
    ELSE IF ServerMatch(s, p) # 0
            THEN <<"system", SP, "{">> \o ServerSubFrom(s, ServerMatch(s, p) + 1)
            ELSE <<s[p]>> \o ServerSubFrom(s, p + 1)

\* re.sub(r'\bserver\s*{', 'system {', config)
fix_deprecated_server_keyword(config) == ServerSubFrom(config, 1)

\* \d+ : an atom of digits
IsDigits(a) == a \in {"0", "1", "10"}

\* route\s+"[^"]+"\s*\{\s*priority\s+\d+\s*\}\s*$ tried at p (MULTILINE):
\* after the closing brace, white space up to the end of the text or up to
\* a line break.
RoutePriorityMatch(s, p) ==
    LET b == SkipWS(s, p + 1)
        c == NextAtom(s, b + 1, Q)
        d == SkipWS(s, c + 1)
        e == SkipWS(s, d + 1)
        f == SkipWS(s, e + 1)
        g == SkipWS(s, f + 1)
    IN /\ At(s, p, "route") /\ b > p + 1
       /\ At(s, b, Q) /\ c > b + 1
       /\ At(s, d, "{")
       /\ At(s, e, "priority") /\ f > e + 1
       /\ f \in 1..Len(s) /\ IsDigits(s[f])
       /\ At(s, g, "}")
       /\ \E h \in (g + 1)..SkipWS(s, g + 1) : h = Len(s) + 1 \/ s[h] = NL

\* re.match(r'^\s*agent\s+"[^"]+"\s+type=', s)
AgentTypeMatch(s) ==
    LET b == SkipWS(s, 2)
        c == NextAtom(s, b + 1, Q)
        d == SkipWS(s, c + 1)
    IN /\ At(s, 1, "agent") /\ b > 2
       /\ At(s, b, Q) /\ c > b + 1
       /\ d > c + 1 /\ At(s, d, "type") /\ At(s, d + 1, "=")

\* s.startswith(prefix)
StartsWith(s, prefix) ==
    Len(s) >= Len(prefix) /\ SubSeq(s, 1, Len(prefix)) = prefix

\* len(s.split('\n'))
LineCount(s) == Cardinality({i \in 1..Len(s) : s[i] = NL}) + 1

should_skip_wrapping(config) ==
    \/ \E p \in 1..Len(Strip(config)) : RoutePriorityMatch(Strip(config), p)
    \/ /\ StartsWith(Strip(config), <<"waf", SP, "{">>)
       /\ ~has_block(config, "agents")
    \/ /\ AgentTypeMatch(Strip(config))
       /\ ~has_block(config, "agents")
    \/ /\ LineCount(Strip(config)) <= 5
       /\ \/ StartsWith(Strip(config), <<"listeners", SP, "{">>)
          \/ StartsWith(Strip(config), <<"limits", SP, "{">>)

\* MINIMAL_WRAPPER_TEMPLATE up to {content}; the body of a block is opaque.
MinimalWrapperHead ==
    <<"//", " Documentation example - wrapped in minimal config for validation",
      NL, "system", SP, "{", NL, "    worker-threads 0", NL, "}", NL, NL,
      "listeners", SP, "{", NL, "    listener \"http\" {...}", NL, "}", NL, NL>>

FixUpstreamsSection ==
    <<"upstreams", SP, "{", NL, "    upstream \"backend\" {...}", NL, "}">>
FixRoutesSection ==
    <<"routes", SP, "{", NL, "    route \"default\" {...}", NL, "}">>

\* extra_sections of wrap_incomplete_snippet
ExtraSections(config) ==
    (IF has_block(config, "routes") /\ ~has_block(config, "upstreams")
        THEN <<FixUpstreamsSection>> ELSE <<>>)
    \o (IF ~has_block(config, "routes")
           THEN (IF ~has_block(config, "upstreams")
                    THEN <<FixUpstreamsSection>> ELSE <<>>)
                \o <<FixRoutesSection>>
           ELSE <<>>)

wrap_incomplete_snippet(config) ==
    IF should_skip_wrapping(config) THEN config
    ELSE Strip(MinimalWrapperHead \o config \o <<NL, NL>>
               \o Join(ExtraSections(config), <<NL, NL>>))

\* Fix 2 of replace_kdl_block, on the text Fix 1 left.
WrapStep(original_kdl, fixed) ==
    LET wrapped == wrap_incomplete_snippet(fixed)
        tags == IF fixed # original_kdl THEN <<"server->system">> ELSE <<>>
    IN IF ~is_complete_config(fixed) /\ wrapped # fixed
          THEN [text |-> wrapped \o <<NL>>, tags |-> tags \o <<"wrapped snippet">>]
          ELSE [text |-> fixed \o <<NL>>, tags |-> tags]

\* process_file.replace_kdl_block: the text put between the fences (what
\* follows group 1 and precedes group 3) and the tags appended to changes.
replace_kdl_block(kdl_content) ==
    WrapStep(kdl_content, fix_deprecated_server_keyword(kdl_content))

\* The pieces a fragment met by fix_configs is made of: a line, or the
\* two blocks of a complete configuration.
FixPieces ==
    { <<"server", SP, "{", SP, "}">>,
      <<"system", SP, "{", SP, "}">>,
      <<"listeners", SP, "{", SP, "}">>,
      <<"server", SP, "{", SP, "}", NL, "listeners", SP, "{", SP, "}">>,
      <<"system", SP, "{", SP, "}", NL, "listeners", SP, "{", SP, "}">>,
      <<"routes", SP, "{", SP, "}", NL, "upstreams", SP, "{", SP, "}">>,
      <<"listeners", SP, "{">>,
      <<"limits", SP, "{">>,
      <<"routes", SP, "{", SP, "}">>,
      <<"upstreams", SP, "{", SP, "}">>,
      <<"waf", SP, "{">>,
      <<"agent", SP, Q, "a", Q, SP, "type", "=", Q, "custom", Q, SP, "{">>,
      <<"route", SP, Q, "a", Q, SP, "{", SP, "priority", SP, "1", SP, "}">>,
      <<"}">> }

\* A block of a document: up to MaxFixPieces pieces, or a piece followed
\* by up to MaxFill closing lines; with or without the line break that ends
\* the last line.
FixFragments ==
    LET short == {Join(ls, <<NL>>) : ls \in SeqsUpTo(FixPieces, MaxFixPieces)}
        long == {Join(<<h>> \o [i \in 1..k |-> <<"}">>], <<NL>>) :
                    h \in FixPieces, k \in 1..MaxFill}
    IN UNION {{b, b \o <<NL>>} : b \in short \cup long}

(***************************************************************************)
(* State.                                                                  *)
(***************************************************************************)
VARIABLES
    script,          \* "complete" (complete_all_configs) or "convert"
    pc,              \* "main", "called", "scan", "matched", "returned", "exit"
    frag,            \* the fragment in hand (kdl_content, or config)
    valid,           \* the validator's verdicts on the texts frag leads to
    cc,              \* the outcome of complete_config(frag)
    block,           \* the outcome of fix_kdl_block on the block in hand
    fixes,           \* process_file: the tags appended so far
    changed,         \* process_file: content != original, so far
    nblocks,         \* process_file: blocks matched so far
    nsubst,          \* history: blocks of this file given a new text
    nunresolved,     \* history: blocks of this file that fail validation
                     \* and whose rewrite does not validate
    written,         \* process_file wrote the file
    pf_result,       \* what process_file returned
    modified_count, total_fixed, total_attempted,   \* main's counters
    total_unresolved,\* history: nunresolved summed over the files
    conv_pc, conv_in, conv_out, conv_rule,   \* the dialect rules applied alone
    tc_pc, tc_text, tc_files, tc_result, tc_calls,  \* test_config step by step
    fx_pc,           \* fix_configs: "idle", "start", "sub", "done"
    fx_file,         \* the document on disk: the texts of its kdl blocks
    fx_prev,         \* history: the document before the latest run
    fx_content,      \* process_file: content, block by block
    fx_i,            \* process_file: blocks re.sub has replaced so far
    fx_changes,      \* process_file: changes
    fx_result,       \* what process_file returned
    fx_runs          \* runs of process_file on the document so far

mainVars ==
    <<script, pc, frag, valid, cc, block, fixes, changed, nblocks, nsubst,
      nunresolved, written, pf_result, modified_count, total_fixed,
      total_attempted, total_unresolved>>
convVars == <<conv_pc, conv_in, conv_out, conv_rule>>
tcVars == <<tc_pc, tc_text, tc_files, tc_result, tc_calls>>
fixVars ==
    <<fx_pc, fx_file, fx_prev, fx_content, fx_i, fx_changes, fx_result, fx_runs>>
vars == <<mainVars, convVars, tcVars, fixVars>>

NoValidator == <<>>

MainInit ==
    /\ script \in {"complete", "convert"}
    /\ pc = "main"
    /\ frag = <<>> /\ valid = NoValidator /\ cc = NoCall /\ block = NoBlock
    /\ fixes = <<>> /\ changed = FALSE /\ nblocks = 0
    /\ nsubst = 0 /\ nunresolved = 0
    /\ written = FALSE /\ pf_result = <<>>
    /\ modified_count = 0 /\ total_fixed = 0 /\ total_attempted = 0
    /\ total_unresolved = 0

ConvIdle ==
    conv_pc = "idle" /\ conv_in = <<>> /\ conv_out = <<>> /\ conv_rule = "none"

TcIdle ==
    /\ tc_pc = "idle" /\ tc_text = <<>> /\ tc_files = {}
    /\ tc_result = "none" /\ tc_calls = 0

FixIdle ==
    /\ fx_pc = "idle" /\ fx_file = <<>> /\ fx_prev = <<>> /\ fx_content = <<>>
    /\ fx_i = 0 /\ fx_changes = <<>> /\ fx_result = <<>> /\ fx_runs = 0

Init == MainInit /\ ConvIdle /\ TcIdle /\ FixIdle

(***************************************************************************)
(* complete_config called on a fragment (it is a function of the module;   *)
(* process_file calls it only on fragments that failed validation).        *)
(***************************************************************************)
CallCompleteConfig ==
    /\ pc = "main" /\ script = "complete" /\ pf_result = <<>>
    /\ \E config \in ConfigFragments :
         \E V \in Validators("complete", config) :
            /\ frag' = config
            /\ valid' = V
            /\ cc' = complete_config(config, V)
    /\ pc' = "called"
    /\ UNCHANGED <<convVars, tcVars, fixVars>>
    /\ UNCHANGED <<script, block, fixes, changed, nblocks, nsubst, nunresolved,
                   written, pf_result, modified_count, total_fixed,
                   total_attempted, total_unresolved>>

ReturnCompleteConfig ==
    /\ pc = "called"
    /\ pc' = "main"
    /\ frag' = <<>> /\ valid' = NoValidator /\ cc' = NoCall
    /\ UNCHANGED <<convVars, tcVars, fixVars>>
    /\ UNCHANGED <<script, block, fixes, changed, nblocks, nsubst, nunresolved,
                   written, pf_result, modified_count, total_fixed,
                   total_attempted, total_unresolved>>

(***************************************************************************)
(* main: for md_file in md_files: process_file(md_file)                    *)
(***************************************************************************)
\* process_file opens the next file: original = content, fixes = []
StartFile ==
    /\ pc = "main" /\ pf_result = <<>>
    /\ pc' = "scan"
    /\ fixes' = <<>> /\ changed' = FALSE /\ nblocks' = 0
    /\ nsubst' = 0 /\ nunresolved' = 0
    /\ UNCHANGED <<convVars, tcVars, fixVars>>
    /\ UNCHANGED <<script, frag, valid, cc, block, written, pf_result,
                   modified_count, total_fixed, total_attempted,
                   total_unresolved>>

\* The callback ran on kdl_content with outcome b: its tags are in fixes.
Callback(kdl_content, V, b) ==
    /\ frag' = kdl_content
    /\ valid' = V
    /\ block' = b
    /\ cc' = b.cc
    /\ fixes' = fixes \o b.tags

\* re.sub finds the next block and runs fix_kdl_block on it
FixKdlBlockComplete ==
    /\ pc = "scan" /\ script = "complete" /\ nblocks < MaxBlocks
    /\ \E kdl_content \in ConfigFragments :
         \E V \in Validators("complete", kdl_content) :
            Callback(kdl_content, V, CompleteFixKdlBlock(kdl_content, V))
    /\ pc' = "matched"
    /\ UNCHANGED <<convVars, tcVars, fixVars>>
    /\ UNCHANGED <<script, changed, nblocks, nsubst, nunresolved, written,
                   pf_result, modified_count, total_fixed, total_attempted,
                   total_unresolved>>

FixKdlBlockConvert ==
    /\ pc = "scan" /\ script = "convert" /\ nblocks < MaxBlocks
    /\ \E kdl_content \in ConvBlockFragments :
         \E V \in Validators("convert", kdl_content) :
            Callback(kdl_content, V, ConvertFixKdlBlock(kdl_content, V))
    /\ pc' = "matched"
    /\ UNCHANGED <<convVars, tcVars, fixVars>>
    /\ UNCHANGED <<script, changed, nblocks, nsubst, nunresolved, written,
                   pf_result, modified_count, total_fixed, total_attempted,
                   total_unresolved>>

\* The block in hand fails validation and so does its rewrite.
Unresolved ==
    /\ ~valid[frag]
    /\ IF script = "complete" THEN ~valid[Candidate(frag)]
       ELSE ~block.subst

\* re.sub puts the text the callback returned in place of the block
PutBack ==
    /\ pc = "matched"
    /\ pc' = "scan"
    /\ changed' = (changed \/ block.repl # Group0(frag))
    /\ nblocks' = nblocks + 1
    /\ nsubst' = nsubst + (IF block.subst THEN 1 ELSE 0)
    /\ nunresolved' = nunresolved + (IF Unresolved THEN 1 ELSE 0)
    /\ frag' = <<>> /\ valid' = NoValidator /\ cc' = NoCall /\ block' = NoBlock
    /\ UNCHANGED <<convVars, tcVars, fixVars>>
    /\ UNCHANGED <<script, fixes, written, pf_result, modified_count,
                   total_fixed, total_attempted, total_unresolved>>

\* No block is left: if content != original, write and return (True, fixes)
\* (convert: (True, len(fixes))), else return (False, []) (convert: (False, 0)).
EndFile ==
    /\ pc = "scan"
    /\ pc' = "returned"
    /\ written' = changed
    /\ pf_result' =
         IF script = "complete"
         THEN (IF changed THEN <<TRUE, fixes>> ELSE <<FALSE, <<>> >>)
         ELSE (IF changed THEN <<TRUE, Len(fixes)>> ELSE <<FALSE, 0>>)
    /\ UNCHANGED <<convVars, tcVars, fixVars>>
    /\ UNCHANGED <<script, frag, valid, cc, block, fixes, changed, nblocks,
                   nsubst, nunresolved, modified_count, total_fixed,
                   total_attempted, total_unresolved>>

\* main's loop body after process_file returned
MainCount ==
    /\ pc = "returned"
    /\ pc' = "main"
    /\ LET was_modified == pf_result[1]
       IN IF script = "complete"
          THEN LET completed == Count(pf_result[2], "completed")
                   attempted == Count(pf_result[2], "attempted")
               IN /\ modified_count' =
                        IF was_modified /\ completed > 0
                        THEN modified_count + 1 ELSE modified_count
                  /\ total_fixed' =
                        IF was_modified /\ completed > 0
                        THEN total_fixed + completed ELSE total_fixed
                  /\ total_attempted' =
                        IF was_modified /\ attempted > 0
                        THEN total_attempted + attempted ELSE total_attempted
          ELSE LET fix_count == pf_result[2]
               IN /\ modified_count' =
                        IF was_modified /\ fix_count > 0
                        THEN modified_count + 1 ELSE modified_count
                  /\ total_fixed' =
                        IF was_modified /\ fix_count > 0
                        THEN total_fixed + fix_count ELSE total_fixed
                  /\ UNCHANGED total_attempted
    /\ total_unresolved' = total_unresolved + nunresolved
    /\ UNCHANGED <<convVars, tcVars, fixVars>>
    /\ UNCHANGED <<script, frag, valid, cc, block, fixes, changed, nblocks,
                   nsubst, nunresolved, written, pf_result>>

Next ==
    \/ CallCompleteConfig
    \/ ReturnCompleteConfig
    \/ StartFile
    \/ FixKdlBlockComplete
    \/ FixKdlBlockConvert
    \/ PutBack
    \/ EndFile
    \/ MainCount

Spec == Init /\ [][Next]_vars

(***************************************************************************)
(* The dialect rules as functions: convert_agent_syntax, or one rule of    *)
(* it, applied to a fragment and then to its own result.                   *)
(***************************************************************************)
MainIdle ==
    /\ script = "convert" /\ pc = "main"
    /\ frag = <<>> /\ valid = NoValidator /\ cc = NoCall /\ block = NoBlock
    /\ fixes = <<>> /\ changed = FALSE /\ nblocks = 0
    /\ nsubst = 0 /\ nunresolved = 0
    /\ written = FALSE /\ pf_result = <<>>
    /\ modified_count = 0 /\ total_fixed = 0 /\ total_attempted = 0
    /\ total_unresolved = 0

InitConv ==
    /\ MainIdle /\ TcIdle /\ FixIdle
    /\ conv_pc = "input" /\ conv_in \in ConvFragments
    /\ conv_out = <<>> /\ conv_rule = "none"

Translate(rule, config) ==
    IF rule = "all" THEN convert_agent_syntax(config) ELSE ReSub(rule, config)

RuleNames == {Rules[i] : i \in 1..Len(Rules)}

ApplyConvert ==
    /\ conv_pc = "input"
    /\ conv_rule' = "all"
    /\ conv_out' = <<convert_agent_syntax(conv_in)>>
    /\ conv_pc' = "once"
    /\ UNCHANGED <<conv_in, mainVars, tcVars, fixVars>>

ApplyRule ==
    /\ conv_pc = "input"
    /\ \E rule \in RuleNames :
          /\ conv_rule' = rule
          /\ conv_out' = <<ReSub(rule, conv_in)>>
    /\ conv_pc' = "once"
    /\ UNCHANGED <<conv_in, mainVars, tcVars, fixVars>>

ApplyAgain ==
    /\ conv_pc = "once"
    /\ conv_out' = conv_out \o <<Translate(conv_rule, conv_out[1])>>
    /\ conv_pc' = "twice"
    /\ UNCHANGED <<conv_in, conv_rule, mainVars, tcVars, fixVars>>

NextConv == ApplyConvert \/ ApplyRule \/ ApplyAgain

SpecConv == InitConv /\ [][NextConv]_vars

(***************************************************************************)
(* test_config, statement by statement.  The temporary files are named by  *)
(* the number of the call that made them.                                  *)
(***************************************************************************)
TcTexts == ConfigPieces

InitTc == MainIdle /\ ConvIdle /\ TcIdle /\ FixIdle

\* tempfile.NamedTemporaryFile(mode='w', suffix='.kdl', delete=False)
TcCreate ==
    /\ tc_pc \in {"idle", "returned"} /\ tc_calls < MaxCalls
    /\ tc_text' \in TcTexts
    /\ tc_calls' = tc_calls + 1
    /\ tc_files' = tc_files \cup {tc_calls + 1}
    /\ tc_result' = "none"
    /\ tc_pc' = "created"
    /\ UNCHANGED <<mainVars, convVars, fixVars>>

\* f.write(config_text); temp_file = f.name; the with block closes the file
TcWrite ==
    /\ tc_pc = "created"
    /\ tc_pc' = "written"
    /\ UNCHANGED <<tc_text, tc_files, tc_result, tc_calls, mainVars, convVars, fixVars>>

\* f.write (or the flush on closing) raises: the with block closes the file,
\* which was made with delete=False, and the exception leaves test_config
\* before its try statement is entered.
TcWriteFails ==
    /\ tc_pc = "created"
    /\ tc_pc' = "raised"
    /\ tc_result' = "error"
    /\ UNCHANGED <<tc_text, tc_files, tc_calls, mainVars, convVars, fixVars>>

\* subprocess.run(..., timeout=3): return result.returncode == 0, or the
\* bare except returns False; the finally clause is still to run.
TcRun ==
    /\ tc_pc = "written"
    /\ \E outcome \in {"exit0", "nonzero", "crash", "timeout"} :
          tc_result' = [outcome |-> outcome, ret |-> (outcome = "exit0")]
    /\ tc_pc' = "finally"
    /\ UNCHANGED <<tc_text, tc_files, tc_calls, mainVars, convVars, fixVars>>

\* finally: os.unlink(temp_file)
TcUnlink ==
    /\ tc_pc = "finally"
    /\ tc_files' = tc_files \ {tc_calls}
    /\ tc_pc' = "returned"
    /\ UNCHANGED <<tc_text, tc_result, tc_calls, mainVars, convVars, fixVars>>

NextTc == TcCreate \/ TcWrite \/ TcWriteFails \/ TcRun \/ TcUnlink

SpecTc == InitTc /\ [][NextTc]_vars

(***************************************************************************)
(* fix_configs.process_file run on a document, and run again on what it    *)
(* wrote.  The text between the blocks of a document is not touched by     *)
(* re.sub; a document is the sequence of the texts of its kdl blocks       *)
(* (group 2 of the pattern).                                               *)
(***************************************************************************)
FixDocuments == {<<>>} \cup SeqsUpTo(FixFragments, MaxFixBlocks)

InitFix ==
    /\ MainIdle /\ ConvIdle /\ TcIdle
    /\ fx_pc = "start"
    /\ fx_file \in FixDocuments
    /\ fx_prev = <<>> /\ fx_content = <<>>
    /\ fx_i = 0 /\ fx_changes = <<>> /\ fx_result = <<>> /\ fx_runs = 0

\* content = f.read(); original_content = content; changes = []
FixRead ==
    /\ fx_pc = "start"
    /\ fx_content' = fx_file
    /\ fx_prev' = fx_file
    /\ fx_i' = 0
    /\ fx_changes' = <<>>
    /\ fx_pc' = "sub"
    /\ UNCHANGED <<fx_file, fx_result, fx_runs, mainVars, convVars, tcVars>>

\* re.sub calls replace_kdl_block on the next block and puts its return
\* value in the place of the block.
FixReplaceBlock ==
    /\ fx_pc = "sub" /\ fx_i < Len(fx_content)
    /\ fx_content' =
          [fx_content EXCEPT ![fx_i + 1] = replace_kdl_block(fx_content[fx_i + 1]).text]
    /\ fx_changes' = fx_changes \o replace_kdl_block(fx_content[fx_i + 1]).tags
    /\ fx_i' = fx_i + 1
    /\ UNCHANGED <<fx_pc, fx_file, fx_prev, fx_result, fx_runs,
                   mainVars, convVars, tcVars>>

\* if content != original_content: write, return True, changes;
\* else return False, []
FixEndFile ==
    /\ fx_pc = "sub" /\ fx_i = Len(fx_content)
    /\ IF fx_content # fx_file
          THEN /\ fx_file' = fx_content
               /\ fx_result' = [modified |-> TRUE, changes |-> fx_changes]
          ELSE /\ fx_file' = fx_file
               /\ fx_result' = [modified |-> FALSE, changes |-> <<>>]
    /\ fx_runs' = fx_runs + 1
    /\ fx_pc' = "done"
    /\ UNCHANGED <<fx_prev, fx_content, fx_i, fx_changes,
                   mainVars, convVars, tcVars>>

\* The script is run once more on the documents it left.
FixRunAgain ==
    /\ fx_pc = "done" /\ fx_runs < MaxRuns
    /\ fx_pc' = "start"
    /\ UNCHANGED <<fx_file, fx_prev, fx_content, fx_i, fx_changes, fx_result,
                   fx_runs, mainVars, convVars, tcVars>>

NextFix == FixRead \/ FixReplaceBlock \/ FixEndFile \/ FixRunAgain

SpecFix == InitFix /\ [][NextFix]_vars


(***************************************************************************)
(* Claims.                                                                 *)
(***************************************************************************)
Required == {"system", "listeners", "routes", "upstreams"}

Template(b) ==
    CASE b = "system" -> SystemTemplate
      [] b = "listeners" -> ListenersTemplate
      [] b = "routes" -> RoutesTemplate
      [] b = "upstreams" -> UpstreamsTemplate

\* complete_config has returned: on its own call, or inside the callback.
Completing == pc \in {"called", "matched"} /\ cc.path # "none"

\* complete_config went on to assemble a completion.
Assembling == Completing /\ cc.path \in {"completed", "original"}

\* C1: the value complete_config returns passes validation or is the
\* fragment itself, on every path (the syntax-example path included).
C1_ReturnValidatesOrOriginal ==
    Completing => (cc.ret = frag \/ valid[cc.ret])

\* The last validator call the callback made.
LastCall == block.calls[Len(block.calls)]

\* C2: in both scripts the text put in place of a block is a candidate the
\* validator accepted in the call just before; otherwise the block written
\* back is match.group(0); the file is written only if some block was
\* substituted.
C2_SubstitutionOnlyAfterSuccess ==
    /\ pc = "matched" =>
          \/ block.repl = Group0(frag)
          \/ /\ block.calls # <<>>
             /\ LastCall.ok
             /\ block.repl = Prefix \o LastCall.text \o <<NL>> \o Suffix
    /\ pc = "matched" => (block.subst <=> block.tags \in
                             {<<"completed">>, <<"converted">>, <<"converted+fixed">>})
    /\ written => nsubst > 0

\* C2 happens: a second block of a file of complete_all_configs is given a
\* new text after a first one was.
C2_Witness ==
    /\ pc = "matched" /\ script = "complete" /\ changed
    /\ block.subst /\ block.repl # Group0(frag)

\* C3: a fragment the validator accepts is returned as it is by
\* complete_config (a syntax example too), and both process_file leave its
\* block as it is and record no tag for it.
C3_ValidFragmentUntouched ==
    /\ (pc = "called" /\ valid[frag]) => cc.ret = frag
    /\ (pc = "matched" /\ valid[frag]) =>
          /\ block.repl = Group0(frag)
          /\ block.tags = <<>>
          /\ ~block.subst

\* C3 happens: complete_config is called on a valid syntax example.
C3_Witness == pc = "called" /\ valid[frag] /\ is_syntax_example(frag)

\* C4: the completion holds no template for a block has_block finds in the
\* fragment.
C4_NoPresentBlockAdded ==
    Assembling =>
        \A i \in 1..Len(cc.parts) :
            cc.parts[i].block \in Required => ~has_block(frag, cc.parts[i].block)

\* The rank of a part in the fixed order of the completion.
Rank(b) ==
    CASE b = "system" -> 1 [] b = "listeners" -> 2 [] b = "original" -> 3
      [] b = "routes" -> 4 [] b = "upstreams" -> 5

\* The candidate as joined from the parts complete_config assembled.
AssembledCandidate == Join([i \in 1..Len(cc.parts) |-> cc.parts[i].text], <<NL, NL>>)

\* The parts of the completion: a template for every required block the
\* fragment lacks, the stripped fragment, all in the fixed order.
PartsAsClaimed ==
    /\ \A b \in Required :
          ~has_block(frag, b) =>
              \E i \in 1..Len(cc.parts) :
                  cc.parts[i].block = b /\ cc.parts[i].text = Template(b)
    /\ \E i \in 1..Len(cc.parts) :
          cc.parts[i].block = "original" /\ cc.parts[i].text = Strip(frag)
    /\ \A i \in 1..Len(cc.parts) : \A j \in 1..Len(cc.parts) :
          i < j => Rank(cc.parts[i].block) < Rank(cc.parts[j].block)
    /\ cc.calls[Len(cc.calls)].text = AssembledCandidate

\* C5 as stated: for a fragment that fails validation and is no syntax
\* example, the parts are as claimed and the candidate is returned exactly
\* when it validates.
C5_CandidateReturnedIffValid ==
    (Completing /\ ~valid[frag] /\ ~is_syntax_example(frag)) =>
        /\ Assembling
        /\ PartsAsClaimed
        /\ (cc.ret = AssembledCandidate <=> valid[AssembledCandidate])

\* C5 amended: the parts are as claimed; the candidate is returned when it
\* validates and the fragment itself when it does not (the two are the same
\* text when the fragment has all four blocks and no white space around it).
C5_CandidateOrOriginal ==
    (Completing /\ ~valid[frag] /\ ~is_syntax_example(frag)) =>
        /\ Assembling
        /\ PartsAsClaimed
        /\ valid[AssembledCandidate] => cc.ret = AssembledCandidate
        /\ ~valid[AssembledCandidate] => cc.ret = frag

\* C5 happens: a fragment with listeners only fails validation and its
\* completion, with three templates around it, validates and is returned.
C5_Witness ==
    /\ pc = "called" /\ cc.path = "completed"
    /\ Len(cc.parts) = 4 /\ has_block(frag, "listeners")
    /\ cc.ret = AssembledCandidate /\ cc.ret # frag

\* C6: a fragment that fails validation and has no validating rewrite is
\* written back as it is and tagged "attempted", and main counts it in
\* total_attempted.
C6_UnresolvedCounted ==
    /\ (pc = "matched" /\ script = "complete" /\ Unresolved) =>
          /\ block.repl = Group0(frag)
          /\ block.tags = <<"attempted">>
    /\ (pc = "main" /\ script = "complete") => total_attempted = total_unresolved

\* Position i of text s lies in a comment: a "//" stands before it on its
\* line.
InComment(s, i) ==
    \E j \in 1..i : s[j] = "//" /\ \A k \in j..i : s[k] # NL

\* The atoms of s outside comments, white space left out.
RECURSIVE LiveFrom(_, _)
LiveFrom(s, i) ==
    IF i > Len(s) THEN <<>>
    ELSE (IF IsSpace(s[i]) \/ InComment(s, i) THEN <<>> ELSE <<s[i]>>)
         \o LiveFrom(s, i + 1)

\* C7: for a syntax example that fails validation, complete_config returns
\* the canonical configuration followed by the fragment, whole, every line
\* of it inside a comment: what lies outside comments is the canonical
\* configuration.
C7_SyntaxExampleCommented ==
    (Completing /\ ~valid[frag] /\ is_syntax_example(frag)) =>
        /\ cc.path = "syntax"
        /\ Contains(cc.ret, frag)
        /\ \A i \in (Len(WrapperHead) + 1)..Len(cc.ret) :
              IsSpace(cc.ret[i]) \/ InComment(cc.ret, i)
        /\ LiveFrom(cc.ret, 1) = LiveFrom(WrapperHead, 1)

\* C8: once the temporary file was made, it is gone when test_config is
\* left, whichever way; a crash or timeout of the validator gives False and
\* raises nothing.
C8_TempFileRemoved ==
    /\ tc_pc \in {"returned", "raised"} => tc_files = {}
    /\ (tc_pc = "returned" /\ tc_result.outcome \in {"crash", "timeout"}) =>
          tc_result.ret = FALSE

\* The calls C9 asks of the callback for a fragment that fails validation,
\* given its translation.
RetryAsClaimed(converted, converted2) ==
    /\ Len(block.calls) <= 3
    /\ (~valid[converted] /\ Contains(converted, ServiceTypeBuiltin)) =>
          block.calls = <<Call(valid, frag), Call(valid, converted),
                          Call(valid, converted2)>>
    /\ (~valid[converted] /\ ~(Contains(converted, ServiceTypeBuiltin) /\ valid[converted2])) =>
          block.repl = Group0(frag)

\* C9: in convert_agent_syntax.process_file a fragment that fails
\* validation is translated and tested again; if that fails and the
\* translation holds service-type "builtin", the directive is stripped and
\* the result tested once more, also when the rules changed nothing; else
\* the block stays as it was; at most three validator calls.
C9_RetryAfterFailedConversion ==
    (pc = "matched" /\ script = "convert" /\ ~valid[frag]) =>
        RetryAsClaimed(convert_agent_syntax(frag),
                       StripServiceType(convert_agent_syntax(frag)))

\* C10: the translation, and each rule of it, changes nothing when applied
\* to its own result.
C10_TranslationIdempotent ==
    conv_pc = "twice" => conv_out[2] = conv_out[1]

\* A fragment of five lines or fewer that begins with a bare listeners or
\* limits block.
Vignette(config) ==
    /\ LineCount(Strip(config)) <= 5
    /\ \/ StartsWith(Strip(config), <<"listeners", SP, "{">>)
       \/ StartsWith(Strip(config), <<"limits", SP, "{">>)

\* What C11 says of fix_configs: wrap_incomplete_snippet returns such a
\* fragment as it is, and process_file leaves its block as it was.
VignetteKeptByFixConfigs ==
    fx_pc = "done" =>
        \A i \in 1..Len(fx_prev) :
            Vignette(fx_prev[i]) =>
                /\ wrap_incomplete_snippet(fx_prev[i]) = fx_prev[i]
                /\ fx_file[i] = fx_prev[i]

\* C11: a fragment of five lines or fewer that begins with a bare
\* listeners or limits block is left as it is whatever the validator says:
\* by wrap_incomplete_snippet, by fix_configs.process_file, and by
\* complete_config, also when its completion validates.
C11_VignetteUntouched ==
    /\ VignetteKeptByFixConfigs
    /\ (pc = "called" /\ Vignette(frag)) => cc.ret = frag

\* A block that needs neither the server->system replacement nor wrapping.
NeedsNothing(kdl_content) ==
    /\ fix_deprecated_server_keyword(kdl_content) = kdl_content
    /\ \/ is_complete_config(kdl_content)
       \/ wrap_incomplete_snippet(kdl_content) = kdl_content

\* C12: fix_configs.process_file writes a block that needs nothing back as
\* it was; a document whose blocks all need nothing is not rewritten and
\* (False, []) is returned; a run on the output of a run changes nothing.
C12_FixConfigsFixedPoint ==
    fx_pc = "done" =>
        /\ \A i \in 1..Len(fx_prev) :
              NeedsNothing(fx_prev[i]) => fx_file[i] = fx_prev[i]
        /\ (\A i \in 1..Len(fx_prev) : NeedsNothing(fx_prev[i])) =>
              fx_result = [modified |-> FALSE, changes |-> <<>>]
        /\ fx_runs >= 2 => fx_file = fx_prev

====
